---- MODULE Spec2Model ----
(***************************************************************************)
(* The census quality scoring engine (analyzeCensusData) and its helpers,  *)
(* the normalizer (parseCSV) on the characters of a file text, the chat    *)
(* call (generateChatResponse) and the handlers of App.                    *)
(*                                                                         *)
(* JavaScript values are tagged records: Str(s), Num(n), Undefined.        *)
(* Numbers that may carry a fraction (salary, coverage, voluntary          *)
(* multiple) are held in tenths, so "2.5" is 25; the sample strings carry  *)
(* at most one fractional digit and no exponent.  Scores are integers      *)
(* except the EOI score, which is held as a numerator over totalEmployees; *)
(* the double-precision comparisons and roundings of the source agree with *)
(* this exact arithmetic for the totals of the model, but for the one case *)
(* DoubleBelowHalf records.                                                *)
(* Time is counted in ticks of half a day from a base instant              *)
(* (2024-03-01T00:00Z), so that Math.ceil in getDaysSince has an effect.   *)
(* Characters outside ASCII in the source's string literals are written    *)
(* in ASCII here ("->" for the arrow, "-" for the en dash).                *)
(***************************************************************************)
EXTENDS Integers, Sequences, FiniteSets, TLC

(* ------------------------------ bounds -------------------------------- *)

\* Most lines of a file text.
MaxLines == 3

\* Most sends and uploads of a run of the application.
MaxHandlers == 2

\* Longest record sequence given to the engine.
MaxRows == 3
\* Number of clock ticks the model lets pass.
MaxTicks == 2
\* Number of calls of the engine on the record sequence.
MaxCalls == 2
\* Largest record total of the count-level scoring specification.
MaxTotal == 20

(* -------------------------- JavaScript values ------------------------- *)

Undefined == [type |-> "undefined"]
Str(s) == [type |-> "string", s |-> s]
Num(n) == [type |-> "number", n |-> n]

\* JavaScript truthiness, as used by `!val`, `!dateStr`, `if (row.employeeId)`.
Truthy(val) ==
    CASE val.type = "string" -> val.s # ""
      [] val.type = "number" -> val.n # 0
      [] OTHER -> FALSE

\* The characters of the sample strings: those parsed as numbers, the
\* identifiers and the dates.
Chars(s) ==
    CASE s = "" -> <<>>
      [] s = "0" -> <<"0">>
      [] s = "1" -> <<"1">>
      [] s = "6" -> <<"6">>
      [] s = "-" -> <<"-">>
      [] s = "2x" -> <<"2", "x">>
      [] s = "2.5" -> <<"2", ".", "5">>
      [] s = "N/A" -> <<"N", "/", "A">>
      [] s = "50000" -> <<"5", "0", "0", "0", "0">>
      [] s = "20,000" -> <<"2", "0", ",", "0", "0", "0">>
      [] s = "$60,000" -> <<"$", "6", "0", ",", "0", "0", "0">>
      [] s = "75000.00" -> <<"7", "5", "0", "0", "0", ".", "0", "0">>
      [] s = "$200,000" -> <<"$", "2", "0", "0", ",", "0", "0", "0">>
      [] s = "E1" -> <<"E", "1">>
      [] s = "E2" -> <<"E", "2">>
      [] s = "n/a" -> <<"n", "/", "a">>
      [] s = "1985-04-12" ->
          <<"1", "9", "8", "5", "-", "0", "4", "-", "1", "2">>
      [] s = "2019-03-01" ->
          <<"2", "0", "1", "9", "-", "0", "3", "-", "0", "1">>
      [] s = "2024-02-01" ->
          <<"2", "0", "2", "4", "-", "0", "2", "-", "0", "1">>

DigitChars == <<"0", "1", "2", "3", "4", "5", "6", "7", "8", "9">>
IsDigit(c) == \E d \in 1..10 : DigitChars[d] = c
DigitVal(c) == (CHOOSE d \in 1..10 : DigitChars[d] = c) - 1

NaN == [nan |-> TRUE, v |-> 0]
Finite(v) == [nan |-> FALSE, v |-> v]

RECURSIVE SkipWhite(_)
SkipWhite(cs) ==
    IF Len(cs) > 0 /\ cs[1] = " " THEN SkipWhite(Tail(cs)) ELSE cs

\* Index of the last digit of the run of digits that starts at index i
\* (i - 1 when there is no digit at i).
RECURSIVE DigitRunEnd(_, _)
DigitRunEnd(cs, i) ==
    IF i <= Len(cs) /\ IsDigit(cs[i]) THEN DigitRunEnd(cs, i + 1) ELSE i - 1

\* The decimal value of cs[i..j], all digits.
RECURSIVE DigitsValue(_, _, _)
DigitsValue(cs, i, j) ==
    IF j < i THEN 0 ELSE DigitsValue(cs, i, j - 1) * 10 + DigitVal(cs[j])

\* The number read from t, whose digits start at index b and whose run of
\* integer digits ends at index e (e = b - 1 when there is none): the
\* integer digits, an optional "." and digits; NaN when there is no digit.
\* The value is in tenths.
ParseDigits(t, b, e) ==
    LET neg == Len(t) > 0 /\ t[1] = "-"
        hasInt == e >= b
        hasFrac == /\ e + 2 <= Len(t)
                   /\ t[e + 1] = "."
                   /\ IsDigit(t[e + 2])
        mag == DigitsValue(t, b, e) * 10
               + (IF hasFrac THEN DigitVal(t[e + 2]) ELSE 0)
    IN  IF ~hasInt /\ ~hasFrac THEN NaN
        ELSE Finite(IF neg THEN 0 - mag ELSE mag)

\* The number read from t after its optional sign.
ParseSigned(t, b) == ParseDigits(t, b, DigitRunEnd(t, b))

ParseTrimmed(t) ==
    ParseSigned(t, IF Len(t) > 0 /\ t[1] \in {"-", "+"} THEN 2 ELSE 1)

\* parseFloat: leading white space is skipped, the longest prefix that is
\* a number is read and the rest ignored.
ParseFloat(cs) == ParseTrimmed(SkipWhite(cs))

\* `x || 0` on a number: NaN and 0 are falsy.
OrZero(p) == IF p.nan THEN 0 ELSE p.v

\* val.toString().replace(/[^0-9.-]+/g, "")
StripNonMoney(cs) == SelectSeq(cs, LAMBDA c : IsDigit(c) \/ c \in {".", "-"})

parseMoney(val) ==
    IF val.type = "number" THEN val.n
    ELSE IF ~Truthy(val) THEN 0
    ELSE OrZero(ParseFloat(StripNonMoney(Chars(val.s))))

\* parseFloat(row.voluntaryLifeMultiple as string) || 0
\* (a number is converted to its decimal text and read back; undefined
\* becomes the text "undefined", which holds no digit).
parseVolMult(val) ==
    CASE val.type = "number" -> val.n
      [] val.type = "string" -> OrZero(ParseFloat(Chars(val.s)))
      [] OTHER -> 0

(* -------------------------------- dates ------------------------------- *)

\* Ticks in a day: the divisor 1000 * 60 * 60 * 24 of getDaysSince at a
\* resolution of half a day.
TicksPerDay == 2

\* new Date(dateStr).getTime() for the sample date strings, in ticks from
\* the base instant; NaN for text that is not a date.
DateParse(s) ==
    CASE s = "1985-04-12" -> Finite(0 - 28406)
      [] s = "2019-03-01" -> Finite(0 - 3654)
      [] s = "2024-02-01" -> Finite(0 - 58)
      [] OTHER -> NaN

isValidDate(dateStr) ==
    IF ~Truthy(dateStr) THEN FALSE ELSE ~DateParse(dateStr.s).nan

Abs(x) == IF x < 0 THEN 0 - x ELSE x
CeilDiv(a, b) == (a + b - 1) \div b

getDaysSince(dateStr, clock) ==
    IF ~isValidDate(dateStr) THEN 9999
    ELSE CeilDiv(Abs(clock - DateParse(dateStr.s).v), TicksPerDay)

(* ------------------------------ constants ----------------------------- *)

GI_LIMIT == 150000
PLAN_MAX_VOL_MULTIPLE == 5
WAITING_PERIOD_DAYS == 30
PENALTY_MISSING_SALARY == 5
PENALTY_MISSING_DOB == 4
PENALTY_VOL_OVER_MAX == 6
PENALTY_ZERO_SALARY_COV == 5
PENALTY_WAITING_PERIOD == 5
PENALTY_INELIGIBLE_DEP == 4
PENALTY_EOI_MISSING_SALARY == 3

(* --------------------- 1. iterate and count issues -------------------- *)

\* new Map<string, number>(): the identifier-count table a call starts
\* from.  `carried` is the table the previous call left behind, which a
\* fresh Map ignores.
NewIdCounts_Shared(carried) == carried

NewIdCounts(carried) == [k \in {} |-> 0]

\* employeeIdCounts.get(k) || 0
MapGetOrZero(m, k) == IF k \in DOMAIN m THEN m[k] ELSE 0

MapSet(m, k, v) == [x \in (DOMAIN m) \cup {k} |-> IF x = k THEN v ELSE m[x]]

\* The accumulators declared before the loop.
ZeroCounts(idCounts) ==
    [ missingSalaryCount |-> 0, missingDobCount |-> 0,
      volMultiOverMaxCount |-> 0, zeroSalaryCount |-> 0,
      waitingPeriodCount |-> 0, ineligibleDepCount |-> 0,
      employeesExceedingGI |-> 0, employeeIdCounts |-> idCounts ]

Bump(b) == IF b THEN 1 ELSE 0

\* if (row.employeeId) employeeIdCounts.set(id, (get(id) || 0) + 1)
CountId_EmptyToo(m, id) ==
    IF id.type = "string" THEN MapSet(m, id.s, MapGetOrZero(m, id.s) + 1) ELSE m

CountId(m, id) ==
    IF Truthy(id) THEN MapSet(m, id.s, MapGetOrZero(m, id.s) + 1) ELSE m

\* totalVolume > GI_LIMIT with totalVolume = basicCov + salary * volMult,
\* the three amounts in tenths.
ExceedsGI_AtLeast(basicCov, salary, volMult) ==
    basicCov * 10 + salary * volMult >= GI_LIMIT * 100

ExceedsGI(basicCov, salary, volMult) ==
    basicCov * 10 + salary * volMult > GI_LIMIT * 100

\* The checks of the loop body on one record, its salary, multiple and
\* basic coverage parsed.
CountParsed(acc, row, clock, salary, volMult, basicCov) ==
    [ missingSalaryCount |-> acc.missingSalaryCount + Bump(~(salary > 0)),
      missingDobCount |->
          acc.missingDobCount
          + Bump(~Truthy(row.dob) \/ ~isValidDate(row.dob)),
      volMultiOverMaxCount |->
          acc.volMultiOverMaxCount
          + Bump(volMult > PLAN_MAX_VOL_MULTIPLE * 10),
      zeroSalaryCount |->
          acc.zeroSalaryCount + Bump(volMult > 0 /\ ~(salary > 0)),
      waitingPeriodCount |->
          acc.waitingPeriodCount
          + Bump(/\ Truthy(row.hireDate)
                 /\ isValidDate(row.hireDate)
                 /\ getDaysSince(row.hireDate, clock) < WAITING_PERIOD_DAYS),
      ineligibleDepCount |-> acc.ineligibleDepCount,
      employeesExceedingGI |->
          acc.employeesExceedingGI
          + Bump(ExceedsGI(basicCov, salary, volMult)),
      employeeIdCounts |-> CountId(acc.employeeIdCounts, row.employeeId) ]

\* The body of rows.forEach: one record's contribution to the counts.
CountRow(acc, row, clock) ==
    CountParsed(acc, row, clock,
                parseMoney(row.annualSalary),
                parseVolMult(row.voluntaryLifeMultiple),
                parseMoney(row.basicLifeCoverage))

RECURSIVE CountRows(_, _, _)
CountRows(acc, rs, clock) ==
    IF rs = <<>> THEN acc
    ELSE CountRows(CountRow(acc, Head(rs), clock), Tail(rs), clock)

\* employeeIdCounts.forEach(count => { if (count > 1) dup += count - 1 })
Excess(count) == IF count > 1 THEN count - 1 ELSE 0

RECURSIVE SumExcess(_, _)
SumExcess(m, keys) ==
    IF keys = {} THEN 0
    ELSE LET k == CHOOSE x \in keys : TRUE
         IN  Excess(m[k]) + SumExcess(m, keys \ {k})

\* The counts the scores are computed from: the loop's accumulators, the
\* duplicate count and the record total.
Counts(acc, total) ==
    [ totalEmployees |-> total,
      missingSalaryCount |-> acc.missingSalaryCount,
      missingDobCount |-> acc.missingDobCount,
      volMultiOverMaxCount |-> acc.volMultiOverMaxCount,
      zeroSalaryCount |-> acc.zeroSalaryCount,
      waitingPeriodCount |-> acc.waitingPeriodCount,
      ineligibleDepCount |-> acc.ineligibleDepCount,
      employeesExceedingGI |-> acc.employeesExceedingGI,
      duplicateIdCount |->
          SumExcess(acc.employeeIdCounts, DOMAIN acc.employeeIdCounts),
      employeeIdCounts |-> acc.employeeIdCounts ]

CountIssues(rs, clock, idCounts) ==
    Counts(CountRows(ZeroCounts(idCounts), rs, clock), Len(rs))

(* ----------------------- 2. calculate sub-scores ---------------------- *)

Min(a, b) == IF a < b THEN a ELSE b
Max(a, b) == IF a > b THEN a ELSE b

\* Math.min(100, Math.max(0, x)) for a score held in units of 1/unit.
Clamp_Off(x, unit) == x

Clamp(x, unit) == Min(100 * unit, Max(0, x))

\* Math.round(n / d) for n >= 0, d > 0: halves round up.
MathRound(n, d) == (2 * n + d) \div (2 * d)

\* Math.ceil(n / d) for n >= 0, d > 0.
MathCeil(n, d) == (n + d - 1) \div d

\* compDensityAdj: 15 if density <= 0.05, 10 if <= 0.10, else 0, with
\* density = (missingSalaryCount + missingDobCount) / totalEmployees.
compDensityAdj_Strict(c) ==
    LET errors == c.missingSalaryCount + c.missingDobCount
    IN  IF errors * 20 < c.totalEmployees THEN 15
        ELSE IF errors * 10 < c.totalEmployees THEN 10
        ELSE 0

compDensityAdj(c) ==
    LET errors == c.missingSalaryCount + c.missingDobCount
    IN  IF errors * 20 <= c.totalEmployees THEN 15
        ELSE IF errors * 10 <= c.totalEmployees THEN 10
        ELSE 0

completenessScore(c) ==
    Clamp(100 - (c.missingSalaryCount * PENALTY_MISSING_SALARY
                 + c.missingDobCount * PENALTY_MISSING_DOB)
              + compDensityAdj(c), 1)

consDensityAdj_Always(c) ==
    LET consistencyErrorCount == c.volMultiOverMaxCount + c.zeroSalaryCount
    IN  IF consistencyErrorCount * 20 <= c.totalEmployees
        THEN 0 - 9 ELSE 0 - 15

consDensityAdj(c) ==
    LET consistencyErrorCount == c.volMultiOverMaxCount + c.zeroSalaryCount
    IN  IF consistencyErrorCount > 0
        THEN IF consistencyErrorCount * 20 <= c.totalEmployees
             THEN 0 - 9 ELSE 0 - 15
        ELSE 0

consistencyScore(c) ==
    Clamp(100 - (c.volMultiOverMaxCount * PENALTY_VOL_OVER_MAX
                 + c.zeroSalaryCount * PENALTY_ZERO_SALARY_COV)
              + consDensityAdj(c), 1)

eligibilityScore(c) ==
    Clamp(100 - (c.waitingPeriodCount * PENALTY_WAITING_PERIOD
                 + c.ineligibleDepCount * PENALTY_INELIGIBLE_DEP), 1)

\* eoiScore times totalEmployees:
\* 100 - (employeesExceedingGI / totalEmployees * 100) * 0.8
\*     - missingSalaryCount * PENALTY_EOI_MISSING_SALARY, clamped.
eoiScoreNum_PenaltyAdded(c) ==
    Clamp(100 * c.totalEmployees - 80 * c.employeesExceedingGI
          + c.missingSalaryCount * PENALTY_EOI_MISSING_SALARY * c.totalEmployees,
          c.totalEmployees)

eoiScoreNum(c) ==
    Clamp(100 * c.totalEmployees - 80 * c.employeesExceedingGI
          - c.missingSalaryCount * PENALTY_EOI_MISSING_SALARY * c.totalEmployees,
          c.totalEmployees)

(* ---------------------- 3. final weighted score ----------------------- *)

\* weightedScore times 20 * totalEmployees, the weights 0.30, 0.25, 0.25
\* and 0.20 being 6/20, 5/20, 5/20 and 4/20.
WeightedNum_SwappedWeights(comp, cons, elig, eoiNum, total) ==
    4 * comp * total + 5 * cons * total + 5 * elig * total + 6 * eoiNum

WeightedNum(comp, cons, elig, eoiNum, total) ==
    6 * comp * total + 5 * cons * total + 5 * elig * total + 4 * eoiNum

\* The sub-scores at which the weighted sum is exactly a half in the reals
\* and its double-precision value lies just below the half, so that
\* Math.round goes down.  For totals up to MaxRows + 1 this is the one case
\* (87 * 0.30 + 56 * 0.25 + 80 * 0.25 + 17 * 0.20 = 63.49999999999999);
\* everywhere else within that range the double-precision sum rounds as
\* the exact sum does.
DoubleBelowHalf(comp, cons, elig, eoiNum, total) ==
    comp = 87 /\ cons = 56 /\ elig = 80 /\ eoiNum = 17 * total

\* Math.round(weightedScore)
RoundWeighted(comp, cons, elig, eoiNum, total) ==
    IF DoubleBelowHalf(comp, cons, elig, eoiNum, total)
    THEN MathRound(WeightedNum(comp, cons, elig, eoiNum, total), 20 * total) - 1
    ELSE MathRound(WeightedNum(comp, cons, elig, eoiNum, total), 20 * total)

overallScore(c) ==
    RoundWeighted(completenessScore(c), consistencyScore(c),
                  eligibilityScore(c), eoiScoreNum(c), c.totalEmployees)

riskLevel_Strict(overall) ==
    IF overall > 85 THEN "Low"
    ELSE IF overall > 70 THEN "Moderate"
    ELSE "High"

riskLevel(overall) ==
    IF overall >= 85 THEN "Low"
    ELSE IF overall >= 70 THEN "Moderate"
    ELSE "High"

(* --------------------- 4. generate output artifacts ------------------- *)

Issue(type, count, severity, description) ==
    [type |-> type, count |-> count, severity |-> severity,
     description |-> description]

\* arr.push(x) when the condition holds.
PushIf(arr, cond, x) == IF cond THEN Append(arr, x) ELSE arr

anomalies(c) ==
    LET a1 == PushIf(<<>>, c.duplicateIdCount > 0,
                     Issue("Duplicate IDs", c.duplicateIdCount, "High",
                           "Duplicate employee IDs found"))
    IN  PushIf(a1, c.missingSalaryCount * 10 > c.totalEmployees,
               Issue("Missing Salaries", c.missingSalaryCount, "High",
                     "High volume of missing salaries"))

\* A template string `${count}text` is the pair <<count, text>>.
drivers_DuplicatesFirst(c) ==
    LET d1 == PushIf(<<>>, c.duplicateIdCount > 0,
                     <<c.duplicateIdCount, " duplicate IDs">>)
        d2 == PushIf(d1, c.employeesExceedingGI > 0,
                     <<c.employeesExceedingGI,
                       " employees exceed GI ($150k) -> EOI required">>)
        d3 == PushIf(d2, c.missingSalaryCount > 0,
                     <<c.missingSalaryCount, " missing salary records">>)
        d4 == PushIf(d3, c.waitingPeriodCount > 0,
                     <<c.waitingPeriodCount, " employees in waiting period">>)
    IN  PushIf(d4, c.volMultiOverMaxCount > 0,
               <<c.volMultiOverMaxCount,
                 " coverage elections exceeding plan max (5x)">>)

drivers(c) ==
    LET d1 == PushIf(<<>>, c.employeesExceedingGI > 0,
                     <<c.employeesExceedingGI,
                       " employees exceed GI ($150k) -> EOI required">>)
        d2 == PushIf(d1, c.missingSalaryCount > 0,
                     <<c.missingSalaryCount, " missing salary records">>)
        d3 == PushIf(d2, c.waitingPeriodCount > 0,
                     <<c.waitingPeriodCount, " employees in waiting period">>)
        d4 == PushIf(d3, c.volMultiOverMaxCount > 0,
                     <<c.volMultiOverMaxCount,
                       " coverage elections exceeding plan max (5x)">>)
    IN  PushIf(d4, c.duplicateIdCount > 0,
               <<c.duplicateIdCount, " duplicate IDs">>)

\* drivers.slice(0, 5)
Slice5(arr) == SubSeq(arr, 1, Min(5, Len(arr)))

\* Math.ceil(employeesExceedingGI * 1.1)
eoiVol(c) == MathCeil(c.employeesExceedingGI * 11, 10)

clarificationCycles(overall) ==
    IF overall < 70 THEN "6+" ELSE IF overall < 85 THEN "4-6" ELSE "1-2"

postIssueRisk_Shifted(overall) ==
    IF overall < 70 THEN "Medium" ELSE IF overall < 85 THEN "Low" ELSE "Low"

postIssueRisk(overall) ==
    IF overall < 70 THEN "High" ELSE IF overall < 85 THEN "Medium" ELSE "Low"

Action(area, recommendation) ==
    [area |-> area, recommendation |-> recommendation]

actions_NoFallback(c) ==
    LET a1 == PushIf(<<>>, c.missingSalaryCount > 0,
                     Action("Missing Salary", "Employer clarification upfront"))
        a2 == PushIf(a1, c.employeesExceedingGI > 0,
                     Action("EOI Volume", "Pre-emptive EOI communication"))
        a3 == PushIf(a2, c.duplicateIdCount > 0,
                     Action("Duplicates", "Deduplicate before enrollment"))
    IN  PushIf(a3, c.volMultiOverMaxCount > 0,
               Action("Plan Limits", "Cap voluntary elections at 5x"))

actions_DuplicatesBeforeEoi(c) ==
    LET a1 == PushIf(<<>>, c.missingSalaryCount > 0,
                     Action("Missing Salary", "Employer clarification upfront"))
        a2 == PushIf(a1, c.duplicateIdCount > 0,
                     Action("Duplicates", "Deduplicate before enrollment"))
        a3 == PushIf(a2, c.employeesExceedingGI > 0,
                     Action("EOI Volume", "Pre-emptive EOI communication"))
        a4 == PushIf(a3, c.volMultiOverMaxCount > 0,
                     Action("Plan Limits", "Cap voluntary elections at 5x"))
    IN  PushIf(a4, Len(a4) = 0, Action("General", "Proceed to enrollment"))

actions(c) ==
    LET a1 == PushIf(<<>>, c.missingSalaryCount > 0,
                     Action("Missing Salary", "Employer clarification upfront"))
        a2 == PushIf(a1, c.employeesExceedingGI > 0,
                     Action("EOI Volume", "Pre-emptive EOI communication"))
        a3 == PushIf(a2, c.duplicateIdCount > 0,
                     Action("Duplicates", "Deduplicate before enrollment"))
        a4 == PushIf(a3, c.volMultiOverMaxCount > 0,
                     Action("Plan Limits", "Cap voluntary elections at 5x"))
    IN  PushIf(a4, Len(a4) = 0, Action("General", "Proceed to enrollment"))

\* riskLevel.toLowerCase()
ToLowerCase(level) ==
    CASE level = "Low" -> "low"
      [] level = "Moderate" -> "moderate"
      [] level = "High" -> "high"

\* The executive summary template, as the sequence of its parts.
summary(c, overall) ==
    << "This census demonstrates ", ToLowerCase(riskLevel(overall)),
       " enrollment risk (Score: ", overall, "). Primary drivers include ",
       c.employeesExceedingGI, " EOI cases and ", c.missingSalaryCount,
       " missing data points." >>

SubScore(name, score, issues) ==
    [name |-> name, score |-> score, issues |-> issues]

\* The object returned for a non-empty record sequence, `overall` being
\* overallScore.
ResultObject(c, overall, total) ==
        [ overallScore |-> overall,
          riskLevel |-> riskLevel(overall),
          totalEmployees |-> total,
          subScores |->
            [ completeness |->
                SubScore("Completeness", completenessScore(c),
                  << Issue("Missing Salary", c.missingSalaryCount, "High",
                           "Salary field is empty or null"),
                     Issue("Missing DOB", c.missingDobCount, "Medium",
                           "Date of birth missing") >>),
              consistency |->
                SubScore("Consistency", consistencyScore(c),
                  << Issue("Voluntary > Max", c.volMultiOverMaxCount, "High",
                           "Voluntary multiple > plan max (5x)"),
                     Issue("Zero Salary Coverage", c.zeroSalaryCount, "High",
                           "Coverage elected with $0 salary") >>),
              eligibility |->
                SubScore("Eligibility", eligibilityScore(c),
                  << Issue("Waiting Period", c.waitingPeriodCount, "Medium",
                           "Employees in waiting period (<30 days)"),
                     Issue("Ineligible Dependents", c.ineligibleDepCount,
                           "Medium",
                           "Dependents exceeding age limits (Note: Data unavailable)") >>),
              eoiRisk |->
                SubScore("EOI Risk", MathRound(eoiScoreNum(c), total),
                  << Issue("Exceeding GI", c.employeesExceedingGI, "High",
                           "Employees exceeding Guaranteed Issue ($150k)"),
                     Issue("EOI Rate",
                           MathRound(100 * c.employeesExceedingGI, total),
                           "Medium", "% of group requiring EOI") >>) ],
          anomalies |-> anomalies(c),
          executiveSummary |-> summary(c, overall),
          topRiskDrivers |-> Slice5(drivers(c)),
          predictedImpact |->
            [ clarifications |-> <<clarificationCycles(overall), " cycles">>,
              eoiVolume |-> eoiVol(c),
              postIssueCorrectionRisk |-> postIssueRisk(overall) ],
          recommendedActions |-> actions(c) ]

BuildResult(c) == ResultObject(c, overallScore(c), c.totalEmployees)

\* The object returned when rows.length === 0.
EmptyResult_Scored ==
    [ overallScore |-> 100, riskLevel |-> "Low", totalEmployees |-> 0,
      subScores |->
        [ completeness |-> SubScore("Completeness", 100, <<>>),
          consistency |-> SubScore("Consistency", 100, <<>>),
          eligibility |-> SubScore("Eligibility", 100, <<>>),
          eoiRisk |-> SubScore("EOI Risk", 100, <<>>) ],
      anomalies |-> <<>>,
      executiveSummary |-> <<"No data found in file.">>,
      topRiskDrivers |-> <<>>,
      predictedImpact |->
        [ clarifications |-> <<"0">>, eoiVolume |-> 0,
          postIssueCorrectionRisk |-> "None" ],
      recommendedActions |-> <<>> ]

EmptyResult ==
    [ overallScore |-> 0, riskLevel |-> "High", totalEmployees |-> 0,
      subScores |->
        [ completeness |-> SubScore("Completeness", 0, <<>>),
          consistency |-> SubScore("Consistency", 0, <<>>),
          eligibility |-> SubScore("Eligibility", 0, <<>>),
          eoiRisk |-> SubScore("EOI Risk", 0, <<>>) ],
      anomalies |-> <<>>,
      executiveSummary |-> <<"No data found in file.">>,
      topRiskDrivers |-> <<>>,
      predictedImpact |->
        [ clarifications |-> <<"0">>, eoiVolume |-> 0,
          postIssueCorrectionRisk |-> "None" ],
      recommendedActions |-> <<>> ]

Returning(c) == [result |-> BuildResult(c), idCounts |-> c.employeeIdCounts]

\* analyzeCensusData(rows), called when the clock reads `clock`, with
\* `carried` the identifier-count table the previous call left behind.
\* The value is the pair of the returned object and the table this call
\* leaves behind (no table is made for an empty record sequence).
analyzeCensusData(rs, clock, carried) ==
    IF Len(rs) = 0
    THEN [result |-> EmptyResult, idCounts |-> carried]
    ELSE Returning(CountIssues(rs, clock, NewIdCounts(carried)))

\* The four sub-scores as reported, the EOI score before Math.round as a
\* numerator over totalEmployees, and weightedScore as a numerator over
\* 20 * totalEmployees.
SubScores(c) ==
    [ completeness |-> completenessScore(c),
      consistency |-> consistencyScore(c),
      eligibility |-> eligibilityScore(c),
      eoiRisk |-> MathRound(eoiScoreNum(c), c.totalEmployees),
      eoiNum |-> eoiScoreNum(c),
      weightedNum |->
          WeightedNum(completenessScore(c), consistencyScore(c),
                      eligibilityScore(c), eoiScoreNum(c), c.totalEmployees) ]

(* ---------------------------- sample records -------------------------- *)

\* A CensusRow, with the fields analyzeCensusData reads.  Amounts given as
\* numbers are in tenths.
Row(id, dob, hireDate, salary, basic, vol) ==
    [ employeeId |-> id, dob |-> dob, hireDate |-> hireDate,
      annualSalary |-> salary, basicLifeCoverage |-> basic,
      voluntaryLifeMultiple |-> vol ]

\* No issue: volume 50000 + 60000 * 1.
RowClean ==
    Row(Str("E1"), Str("1985-04-12"), Str("2019-03-01"),
        Str("$60,000"), Str("50000"), Str("1"))
\* Only the salary is missing; empty identifier, no hire date.
RowNoSalary ==
    Row(Str(""), Str("1985-04-12"), Undefined,
        Str(""), Str("0"), Str("0"))
\* Every condition at once: no salary, no date of birth, multiple 6, hired
\* 29 days before the base instant, basic coverage above the limit.
RowAtRisk ==
    Row(Str("E1"), Str(""), Str("2024-02-01"),
        Str("N/A"), Str("$200,000"), Str("6"))
\* Salary present (a number, 60000): volume 1 + 60000 * 2.5 exceeds the
\* limit; date of birth unparseable; hired 29 days before the base instant.
RowNewHire ==
    Row(Str("E2"), Str("n/a"), Str("2024-02-01"),
        Num(600000), Str("1"), Str("2.5"))
\* Volume exactly at the limit (75000 * 2); identifier and basic coverage
\* absent; date of birth unparseable; hired 29 days before the base instant.
RowAtLimit ==
    Row(Undefined, Str("n/a"), Str("2024-02-01"),
        Str("75000.00"), Undefined, Str("2x"))
\* Multiple above the plan maximum (a number, 6) with a salary; hire date
\* unparseable.
RowOverMax ==
    Row(Str("E2"), Str("1985-04-12"), Str("n/a"),
        Str("20,000"), Str("-"), Num(60))

\* A salary above the limit with no coverage elected: basic 0, multiple 0.
RowSalaryOnly ==
    Row(Str("E2"), Str("1985-04-12"), Str("2019-03-01"),
        Str("$200,000"), Str("0"), Str("0"))

SampleRows ==
    { RowClean, RowNoSalary, RowAtRisk, RowNewHire, RowAtLimit, RowOverMax,
      RowSalaryOnly }

RowSeqs == UNION {[1..n -> SampleRows] : n \in 0..MaxRows}

(* ------------------------- the normalizer: parseCSV ------------------- *)

\* Text is a sequence of characters, each a one-character string.  A value
\* parseCSV stores is the string at a cell, or undefined.
Text(cs) == [type |-> "string", chars |-> cs]

\* Index of the first occurrence of the character sep in cs, 0 if none.
IndexOf(cs, sep) ==
    IF \E i \in 1..Len(cs) : cs[i] = sep
    THEN CHOOSE i \in 1..Len(cs) :
             cs[i] = sep /\ \A j \in 1..(i - 1) : cs[j] # sep
    ELSE 0

\* String.prototype.split on a one-character separator: "" gives [""].
RECURSIVE Split(_, _)
SplitAt(cs, sep, k) ==
    IF k = 0 THEN <<cs>>
    ELSE <<SubSeq(cs, 1, k - 1)>> \o Split(SubSeq(cs, k + 1, Len(cs)), sep)

Split(cs, sep) == SplitAt(cs, sep, IndexOf(cs, sep))

\* The white space String.prototype.trim removes, among the characters of
\* the sample texts.
IsWhiteSpace(c) == c \in {" ", "\t", "\r", "\n"}

RECURSIVE TrimStart(_)
TrimStart(cs) ==
    IF Len(cs) > 0 /\ IsWhiteSpace(cs[1]) THEN TrimStart(Tail(cs)) ELSE cs

RECURSIVE TrimEnd(_)
TrimEnd(cs) ==
    IF Len(cs) > 0 /\ IsWhiteSpace(cs[Len(cs)])
    THEN TrimEnd(SubSeq(cs, 1, Len(cs) - 1))
    ELSE cs

Trim(cs) == TrimEnd(TrimStart(cs))

UpperCaseLetters ==
    <<"A", "B", "C", "D", "E", "F", "G", "H", "I", "J", "K", "L", "M", "N",
    "O", "P", "Q", "R", "S", "T", "U", "V", "W", "X", "Y", "Z">>

LowerCaseLetters ==
    <<"a", "b", "c", "d", "e", "f", "g", "h", "i", "j", "k", "l", "m", "n",
    "o", "p", "q", "r", "s", "t", "u", "v", "w", "x", "y", "z">>

\* toLowerCase on one character.
LowerChar(c) ==
    IF \E i \in 1..26 : UpperCaseLetters[i] = c
    THEN LowerCaseLetters[CHOOSE i \in 1..26 : UpperCaseLetters[i] = c]
    ELSE c

\* The characters the pattern /[^a-z0-9]/g leaves.
IsKeyChar(c) == IsDigit(c) \/ \E i \in 1..26 : LowerCaseLetters[i] = c

\* header.toLowerCase().replace(/[^a-z0-9]/g, '')
NormalizeKey(header) ==
    SelectSeq([i \in 1..Len(header) |-> LowerChar(header[i])], IsKeyChar)

\* String.prototype.includes
Includes(cs, sub) ==
    \E i \in 0..(Len(cs) - Len(sub)) : SubSeq(cs, i + 1, i + Len(sub)) = sub

\* The property names of CensusRow that headers are mapped to.
Key_employeeId ==
    <<"e", "m", "p", "l", "o", "y", "e", "e", "I", "d">>
Key_annualSalary ==
    <<"a", "n", "n", "u", "a", "l", "S", "a", "l", "a", "r", "y">>
Key_dob ==
    <<"d", "o", "b">>
Key_employmentStatus ==
    <<"e", "m", "p", "l", "o", "y", "m", "e", "n", "t", "S", "t", "a", "t",
    "u", "s">>
Key_hireDate ==
    <<"h", "i", "r", "e", "D", "a", "t", "e">>
Key_basicLifeCoverage ==
    <<"b", "a", "s", "i", "c", "L", "i", "f", "e", "C", "o", "v", "e", "r",
    "a", "g", "e">>
Key_voluntaryLifeMultiple ==
    <<"v", "o", "l", "u", "n", "t", "a", "r", "y", "L", "i", "f", "e", "M",
    "u", "l", "t", "i", "p", "l", "e">>
Key_dependentElections ==
    <<"d", "e", "p", "e", "n", "d", "e", "n", "t", "E", "l", "e", "c", "t",
    "i", "o", "n", "s">>

\* The key a header's normalized key is stored under (lines 85-93).
MapKey_SalaryBeforeId(key) ==
    IF Includes(key, <<"a", "n", "n", "u", "a", "l", "s", "a", "l", "a", "r", "y">>)
            \/ key = <<"s", "a", "l", "a", "r", "y">>
        THEN Key_annualSalary
    ELSE IF Includes(key, <<"i", "d">>)
        THEN Key_employeeId
    ELSE IF Includes(key, <<"d", "o", "b">>) \/ Includes(key, <<"b", "i", "r", "t", "h">>)
        THEN Key_dob
    ELSE IF Includes(key, <<"s", "t", "a", "t", "u", "s">>)
        THEN Key_employmentStatus
    ELSE IF Includes(key, <<"h", "i", "r", "e", "d", "a", "t", "e">>)
        THEN Key_hireDate
    ELSE IF Includes(key, <<"b", "a", "s", "i", "c">>)
        THEN Key_basicLifeCoverage
    ELSE IF Includes(key, <<"v", "o", "l", "u", "n", "t", "a", "r", "y">>)
            \/ Includes(key, <<"s", "u", "p", "p">>)
        THEN Key_voluntaryLifeMultiple
    ELSE IF Includes(key, <<"d", "e", "p", "e", "n", "d", "e", "n", "t">>)
        THEN Key_dependentElections
    ELSE key

MapKey(key) ==
    IF Includes(key, <<"i", "d">>)
        THEN Key_employeeId
    ELSE IF Includes(key, <<"a", "n", "n", "u", "a", "l", "s", "a", "l", "a", "r", "y">>)
            \/ key = <<"s", "a", "l", "a", "r", "y">>
        THEN Key_annualSalary
    ELSE IF Includes(key, <<"d", "o", "b">>) \/ Includes(key, <<"b", "i", "r", "t", "h">>)
        THEN Key_dob
    ELSE IF Includes(key, <<"s", "t", "a", "t", "u", "s">>)
        THEN Key_employmentStatus
    ELSE IF Includes(key, <<"h", "i", "r", "e", "d", "a", "t", "e">>)
        THEN Key_hireDate
    ELSE IF Includes(key, <<"b", "a", "s", "i", "c">>)
        THEN Key_basicLifeCoverage
    ELSE IF Includes(key, <<"v", "o", "l", "u", "n", "t", "a", "r", "y">>)
            \/ Includes(key, <<"s", "u", "p", "p">>)
        THEN Key_voluntaryLifeMultiple
    ELSE IF Includes(key, <<"d", "e", "p", "e", "n", "d", "e", "n", "t">>)
        THEN Key_dependentElections
    ELSE key

\* const row: any = {}
EmptyObject == [k \in {} |-> Undefined]

\* values[index]?.trim(), index counted from 1.
CellAt(values, index) ==
    IF index <= Len(values) THEN Text(Trim(values[index])) ELSE Undefined

\* headers.forEach((header, index) => { ...; row[key] = ... }), from
\* `index` on.
RECURSIVE SetCells(_, _, _, _)
SetCells(row, headers, values, index) ==
    IF index > Len(headers) THEN row
    ELSE SetCells(MapSet(row, MapKey(NormalizeKey(headers[index])),
                         CellAt(values, index)),
                  headers, values, index + 1)

\* The record of one data line.
RowOf(headers, line) == SetCells(EmptyObject, headers, Split(line, ","), 1)

TrimAll(fields) == [i \in 1..Len(fields) |-> Trim(fields[i])]

\* lines[0].split(',').map(h => h.trim())
HeadersOf(line) == TrimAll(Split(line, ","))

\* lines.slice(1).map(line => ...)
RowsFrom(headers, dataLines) ==
    [i \in 1..Len(dataLines) |-> RowOf(headers, dataLines[i])]

\* line => line.trim() !== ''
NonBlank_EmptyOnly(line) == line # <<>>

NonBlank(line) == Trim(line) # <<>>

\* csvText.split('\n').filter(...)
LinesOf(csvText) == SelectSeq(Split(csvText, "\n"), NonBlank)

ParseLines(lines) ==
    IF Len(lines) = 0 THEN <<>>
    ELSE RowsFrom(HeadersOf(lines[1]), Tail(lines))

parseCSV(csvText) == ParseLines(LinesOf(csvText))

\* The keys the forEach of a data line computes, one for each header; none
\* is computed when there is no data line.
KeysFrom(headers) ==
    [i \in 1..Len(headers) |-> MapKey(NormalizeKey(headers[i]))]

KeysOfLines(lines) ==
    IF Len(lines) < 2 THEN <<>> ELSE KeysFrom(HeadersOf(lines[1]))

KeysComputed(csvText) == KeysOfLines(LinesOf(csvText))

(* --------------------------- sample file texts ------------------------ *)

\* A line of a file is written here as the sequence of its fields; its
\* text has a comma between fields, and the text of a file has a line feed
\* between lines.
RECURSIVE Join(_, _)
Join(parts, sep) ==
    IF Len(parts) = 0 THEN <<>>
    ELSE IF Len(parts) = 1 THEN parts[1]
    ELSE parts[1] \o <<sep>> \o Join(Tail(parts), sep)

LineText(fields) == Join(fields, ",")

TextOfLines(lines) == Join([i \in 1..Len(lines) |-> LineText(lines[i])], "\n")

\* Employee ID,Annual Salary,DOB
HeaderIds ==
    << <<"E", "m", "p", "l", "o", "y", "e", "e", " ", "I", "D">>,
       <<"A", "n", "n", "u", "a", "l", " ", "S", "a", "l", "a", "r", "y">>,
       <<"D", "O", "B">> >>

\* salary, Birth Date,Emp Status,Hire Date
HeaderDates ==
    << <<"s", "a", "l", "a", "r", "y">>,
       <<" ", "B", "i", "r", "t", "h", " ", "D", "a", "t", "e">>,
       <<"E", "m", "p", " ", "S", "t", "a", "t", "u", "s">>,
       <<"H", "i", "r", "e", " ", "D", "a", "t", "e">> >>

\* Basic Life,Voluntary,Supp Mult,Dependents
HeaderCoverage ==
    << <<"B", "a", "s", "i", "c", " ", "L", "i", "f", "e">>,
       <<"V", "o", "l", "u", "n", "t", "a", "r", "y">>,
       <<"S", "u", "p", "p", " ", "M", "u", "l", "t">>,
       <<"D", "e", "p", "e", "n", "d", "e", "n", "t", "s">> >>

\* Mid Annual Salary,Base Salary,Birth Status,Hire Date Status: headers
\* that match two rules, and one that matches none.
HeaderMixed ==
    << <<"M", "i", "d", " ", "A", "n", "n", "u", "a", "l", " ", "S", "a",
         "l", "a", "r", "y">>,
       <<"B", "a", "s", "e", " ", "S", "a", "l", "a", "r", "y">>,
       <<"B", "i", "r", "t", "h", " ", "S", "t", "a", "t", "u", "s">>,
       <<"H", "i", "r", "e", " ", "D", "a", "t", "e", " ", "S", "t", "a",
         "t", "u", "s">> >>

\* Dependent Voluntary,Basic Supp,Name
HeaderMixed2 ==
    << <<"D", "e", "p", "e", "n", "d", "e", "n", "t", " ", "V", "o", "l",
         "u", "n", "t", "a", "r", "y">>,
       <<"B", "a", "s", "i", "c", " ", "S", "u", "p", "p">>,
       <<"N", "a", "m", "e">> >>

\* E1,60000,1985-04-12
DataFull ==
    << <<"E", "1">>,
       <<"6", "0", "0", "0", "0">>,
       <<"1", "9", "8", "5", "-", "0", "4", "-", "1", "2">> >>

\* A row of one field.
DataShort ==
    << <<"E", "2">> >>

\* A row of six fields, with blanks around the first, an empty one and a
\* carriage return at the end.
DataLong ==
    << <<" ", "E", "1", " ">>,
       <<>>,
       <<"n", "/", "a">>,
       <<"x">>,
       <<"y">>,
       <<"z", "\r">> >>

\* Two blank fields: the line " , ".
DataEmptyCells ==
    << <<" ">>,
       <<" ">> >>

\* The empty line.
LineEmpty ==
    << <<>> >>

\* A line of a space and a tab.
LineSpaces ==
    << <<" ", "\t">> >>

\* The line an empty line has when lines end with carriage return and
\* line feed.
LineCR ==
    << <<"\r">> >>

BlankLines == {LineEmpty, LineSpaces, LineCR}

SampleLines ==
    { HeaderIds, HeaderDates, HeaderCoverage, HeaderMixed, HeaderMixed2,
      DataFull, DataShort, DataLong, DataEmptyCells } \cup BlankLines

LineSeqs == UNION {[1..n -> SampleLines] : n \in 0..MaxLines}

(* --------------------- from parsed records to the engine -------------- *)

\* The sample strings, by their characters: a cell of a file holds the
\* same string as a field of a sample record.
SampleStrings ==
    { "", "0", "1", "6", "-", "2x", "2.5", "N/A", "50000", "20,000",
      "$60,000", "75000.00", "$200,000", "E1", "E2", "n/a", "1985-04-12",
      "2019-03-01", "2024-02-01" }

StringOf(cs) == CHOOSE str \in SampleStrings : Chars(str) = cs

\* row.<key> of a record parseCSV built (undefined when it has no such
\* key), as a value the engine reads.
FieldOf(rec, key) ==
    IF key \in DOMAIN rec /\ rec[key] # Undefined
    THEN Str(StringOf(rec[key].chars))
    ELSE Undefined

AsCensusRow(rec) ==
    Row(FieldOf(rec, Key_employeeId), FieldOf(rec, Key_dob),
        FieldOf(rec, Key_hireDate), FieldOf(rec, Key_annualSalary),
        FieldOf(rec, Key_basicLifeCoverage),
        FieldOf(rec, Key_voluntaryLifeMultiple))

AsCensusRows(recs) == [i \in 1..Len(recs) |-> AsCensusRow(recs[i])]

(* ------------------------- generateChatResponse ----------------------- *)

MissingKeyMessage ==
    "I'm sorry, I cannot process your request because the API Key is missing. Please configure the application with a valid Gemini API Key."

NoSummaryMessage ==
    "I processed the data, but I couldn't generate a verbal summary. Please check the dashboard."

ServiceErrorMessage ==
    "I encountered an error while communicating with the AI service. Please try again."

\* The promise an async function returns.
Pending == [state |-> "pending", value |-> Undefined]
Resolved(value) == [state |-> "resolved", value |-> value]
Rejected(reason) == [state |-> "rejected", value |-> reason]

\* What ai.models.generateContent can come to: a response whose text is a
\* string, an empty string or undefined, or a failure.
ServiceOutcomes ==
    { [kind |-> "response", text |-> Str("Summary of the census.")],
      [kind |-> "response", text |-> Str("")],
      [kind |-> "response", text |-> Undefined],
      [kind |-> "error", text |-> Str("503 Service Unavailable")] }

\* generateChatResponse up to its await: without an API key it returns the
\* fixed message; with one it calls the service and waits.
ChatRequested(keySet) ==
    IF ~keySet THEN Resolved(Str(MissingKeyMessage)) ELSE Pending

\* generateChatResponse after its await: response.text || "...", or the
\* catch block.
ChatSettled_Propagates(outcome) ==
    IF outcome.kind = "response"
    THEN Resolved(IF Truthy(outcome.text) THEN outcome.text
                  ELSE Str(NoSummaryMessage))
    ELSE Rejected(outcome.text)

ChatSettled(outcome) ==
    IF outcome.kind = "response"
    THEN Resolved(IF Truthy(outcome.text) THEN outcome.text
                  ELSE Str(NoSummaryMessage))
    ELSE Resolved(Str(ServiceErrorMessage))

(* --------------------------- the application -------------------------- *)

\* A ChatMessage, by its role and text.  The text of a message is what the
\* user typed (Text), a template (Template) or a reply (Str).
Message(role, text) == [role |-> role, text |-> text]

Template(parts) == [type |-> "string", parts |-> parts]

INITIAL_MESSAGE ==
    Message("model",
        Str("Hello! I am your Census Quality Scoring Agent. Please upload your employee census file (Excel or CSV) to begin the risk analysis and quality scoring process."))

UploadErrorMessage ==
    "I encountered an error reading that file. Please ensure it is a valid CSV or Excel file."

\* What the user types: two messages, and two inputs that are blank.
SampleInputs == { <<"h", "i">>, <<" ", "o", "k", " ">>, <<" ", " ">>, <<>> }

\* Employee ID,DOB,Hire Date,Annual Salary,Basic Life,Voluntary
HeaderApp ==
    << <<"E", "m", "p", "l", "o", "y", "e", "e", " ", "I", "D">>,
       <<"D", "O", "B">>,
       <<"H", "i", "r", "e", " ", "D", "a", "t", "e">>,
       <<"A", "n", "n", "u", "a", "l", " ", "S", "a", "l", "a", "r", "y">>,
       <<"B", "a", "s", "i", "c", " ", "L", "i", "f", "e">>,
       <<"V", "o", "l", "u", "n", "t", "a", "r", "y">> >>

\* No issue.
DataA ==
    << <<"E", "1">>,
       <<"1", "9", "8", "5", "-", "0", "4", "-", "1", "2">>,
       <<"2", "0", "1", "9", "-", "0", "3", "-", "0", "1">>,
       <<"5", "0", "0", "0", "0">>,
       <<"5", "0", "0", "0", "0">>,
       <<"1">> >>

\* Volume 50000 + 50000 * 2.5, no valid date of birth, hired 29 days before
\* the base instant.
DataB ==
    << <<"E", "2">>,
       <<"n", "/", "a">>,
       <<"2", "0", "2", "4", "-", "0", "2", "-", "0", "1">>,
       <<"5", "0", "0", "0", "0">>,
       <<" ", "5", "0", "0", "0", "0">>,
       <<"2", ".", "5">> >>

\* The identifier only.
DataC ==
    << <<"E", "1">> >>

\* A File: its name, whether file.text() succeeds, and the lines of its
\* text.
File(name, readable, lines) ==
    [name |-> name, readable |-> readable, lines |-> lines]

FileCensus ==
    File("census.csv", TRUE, <<HeaderApp, DataA, LineCR, DataB, DataC>>)
FileOneRow == File("one.csv", TRUE, <<HeaderApp, DataA>>)
FileHeaderOnly == File("header.csv", TRUE, <<HeaderApp, LineEmpty>>)
FileEmpty == File("empty.csv", TRUE, <<>>)
FileUnreadable == File("census.xlsx", FALSE, <<>>)

SampleFiles ==
    {FileCensus, FileOneRow, FileHeaderOnly, FileEmpty, FileUnreadable}

\* rows.length > 0 ? rows : [{} as any]
AnalysisInput(recs) ==
    IF Len(recs) > 0 THEN AsCensusRows(recs)
    ELSE <<AsCensusRow(EmptyObject)>>

\* handleSubmit: if (input.trim() && !isProcessing)
CanSubmit_Unguarded(input, processing) == Trim(input) # <<>>

CanSubmit(input, processing) == Trim(input) # <<>> /\ ~processing

(* ------------------------------- state -------------------------------- *)

VARIABLES
    rows,              \* the record sequence the caller holds
    now,               \* the clock: new Date(), in ticks from the base instant
    employeeIdCounts,  \* the identifier-count table of the latest call
    result,            \* the AnalysisResult of the latest call, or Null
    resultAt,          \* the clock reading of the latest call
    first,             \* the AnalysisResult of the first call, or Null
    firstAt,           \* the clock reading of the first call
    calls,             \* the number of calls made
    tally,             \* count-level scoring: the condition counts
    scores,            \* the sub-scores computed from tally, or Null
    before,            \* the sub-scores before the latest change of tally
    csvLines,          \* the lines a file text was written from
    csvText,           \* the file text given to parseCSV
    parsed,            \* the records parseCSV returned, or Null
    headerKeys,        \* the key computed for each header, or Null
    apiKey,            \* whether process.env.API_KEY is set
    analysisResult,    \* App state: the stored AnalysisResult, or Null
    messages,          \* App state: the ChatMessage list
    isProcessing,      \* App state
    dialogOpen,        \* whether the file chooser is open
    handlers,          \* the calls of handleSendMessage and handleFileUpload
    serviceCalls       \* the number of calls of ai.models.generateContent

vars == << rows, now, employeeIdCounts, result, resultAt, first, firstAt,
           calls, tally, scores, before,
           csvLines, csvText, parsed, headerKeys,
           apiKey, analysisResult, messages, isProcessing, dialogOpen,
           handlers, serviceCalls >>

engineVars ==
    << rows, now, employeeIdCounts, result, resultAt, first, firstAt, calls >>
scoringVars == << tally, scores, before >>
csvVars == << csvLines, csvText, parsed, headerKeys >>
appVars ==
    << apiKey, analysisResult, messages, isProcessing, dialogOpen, handlers,
       serviceCalls >>

Null == [type |-> "null"]

\* A sequence held in a variable that is Null before it is computed.
Array(items) == [type |-> "array", items |-> items]

EngineIdle ==
    /\ rows = <<>>
    /\ now = 0
    /\ employeeIdCounts = NewIdCounts(<<>>)
    /\ result = Null
    /\ resultAt = 0
    /\ first = Null
    /\ firstAt = 0
    /\ calls = 0

ScoringIdle ==
    /\ tally = Null
    /\ scores = Null
    /\ before = Null

CsvIdle ==
    /\ csvLines = <<>>
    /\ csvText = <<>>
    /\ parsed = Null
    /\ headerKeys = Null

\* The state of App at its first render.
AppMounted ==
    /\ analysisResult = Null
    /\ messages = <<INITIAL_MESSAGE>>
    /\ isProcessing = FALSE
    /\ dialogOpen = FALSE
    /\ handlers = <<>>
    /\ serviceCalls = 0

AppIdle == apiKey = FALSE /\ AppMounted

(* ------------------- the engine on record sequences ------------------- *)

\* The caller holds some record sequence; nothing has been analysed.
Init ==
    /\ rows \in RowSeqs
    /\ now = 0
    /\ employeeIdCounts = NewIdCounts(<<>>)
    /\ result = Null
    /\ resultAt = 0
    /\ first = Null
    /\ firstAt = 0
    /\ calls = 0
    /\ ScoringIdle
    /\ CsvIdle
    /\ AppIdle

\* Time passes.
Tick ==
    /\ now < MaxTicks
    /\ now' = now + 1
    /\ UNCHANGED << rows, employeeIdCounts, result, resultAt, first, firstAt,
                    calls >>
    /\ UNCHANGED scoringVars
    /\ UNCHANGED csvVars
    /\ UNCHANGED appVars

\* A call analyzeCensusData(rows) on the unchanged record sequence.  The
\* clock reads of one call (one for each record with a valid hire date)
\* are taken at one instant.
Called(out) ==
    /\ calls < MaxCalls
    /\ calls' = calls + 1
    /\ result' = out.result
    /\ employeeIdCounts' = out.idCounts
    /\ resultAt' = now
    /\ first' = IF first = Null THEN out.result ELSE first
    /\ firstAt' = IF first = Null THEN now ELSE firstAt
    /\ UNCHANGED << rows, now >>
    /\ UNCHANGED scoringVars
    /\ UNCHANGED csvVars
    /\ UNCHANGED appVars

Analyze == Called(analyzeCensusData(rows, now, employeeIdCounts))

Next == Tick \/ Analyze

Spec == Init /\ [][Next]_vars

(* --------------------- the scoring on condition counts ---------------- *)

\* The values a count takes in the initial states: none, one, all.
Levels(total) == {0, 1, total}

\* The counts a record sequence of `total` records can give: a record
\* counted for zeroSalaryCount has no salary, and a record over the plan
\* maximum that has no salary is counted for zeroSalaryCount.
Feasible(c) ==
    /\ c.zeroSalaryCount <= c.missingSalaryCount
    /\ c.missingSalaryCount <= c.totalEmployees
    /\ c.volMultiOverMaxCount + c.missingSalaryCount - c.totalEmployees
         <= c.zeroSalaryCount

Tally(total, mSal, mDob, vol, zero, wait, gi) ==
    [ totalEmployees |-> total, missingSalaryCount |-> mSal,
      missingDobCount |-> mDob, volMultiOverMaxCount |-> vol,
      zeroSalaryCount |-> zero, waitingPeriodCount |-> wait,
      ineligibleDepCount |-> 0, employeesExceedingGI |-> gi,
      duplicateIdCount |-> 0 ]

InitScoring ==
    /\ EngineIdle
    /\ CsvIdle
    /\ AppIdle
    /\ \E total \in 1..MaxTotal :
         \E mDob \in Levels(total), vol \in Levels(total),
            zero \in Levels(total), wait \in Levels(total),
            gi \in Levels(total) :
           /\ tally = Tally(total, zero, mDob, vol, zero, wait, gi)
           /\ Feasible(tally)
    /\ scores = Null
    /\ before = Null

\* The sub-scores of the current counts are computed.
Score ==
    /\ tally # Null
    /\ scores = Null
    /\ scores' = SubScores(tally)
    /\ UNCHANGED << tally, before >>
    /\ UNCHANGED engineVars
    /\ UNCHANGED csvVars
    /\ UNCHANGED appVars

\* One more record has no salary, every other count and the total being
\* the same, and the sub-scores are computed again.
MoreMissingSalary ==
    /\ scores # Null
    /\ tally' = [tally EXCEPT !.missingSalaryCount = @ + 1]
    /\ Feasible(tally')
    /\ before' = scores
    /\ scores' = SubScores(tally')
    /\ UNCHANGED engineVars
    /\ UNCHANGED csvVars
    /\ UNCHANGED appVars

NextScoring == Score \/ MoreMissingSalary

SpecScoring == InitScoring /\ [][NextScoring]_vars

(* ------------------------ the normalizer on file texts ---------------- *)

\* Some file text is at hand; nothing has been parsed.
InitCsv ==
    /\ EngineIdle
    /\ ScoringIdle
    /\ AppIdle
    /\ csvLines \in LineSeqs
    /\ csvText = TextOfLines(csvLines)
    /\ parsed = Null
    /\ headerKeys = Null

\* A call parseCSV(csvText).
Parse ==
    /\ parsed = Null
    /\ parsed' = Array(parseCSV(csvText))
    /\ headerKeys' = Array(KeysComputed(csvText))
    /\ UNCHANGED << csvLines, csvText >>
    /\ UNCHANGED engineVars
    /\ UNCHANGED scoringVars
    /\ UNCHANGED appVars

NextCsv == Parse

SpecCsv == InitCsv /\ [][NextCsv]_vars

(* ----------------------- the application's handlers ------------------- *)

\* App is mounted, with or without an API key; nothing has been sent.
InitApp ==
    /\ EngineIdle
    /\ ScoringIdle
    /\ CsvIdle
    /\ apiKey \in BOOLEAN
    /\ AppMounted

\* A call of handleSendMessage or handleFileUpload: its position, the
\* `messages` and `analysisResult` of the render it was created in, its
\* locals, and, once it has ended, whether it failed and the state of App
\* it left.
Handler(kind, pc, userMsg, file, reply) ==
    [ kind |-> kind, pc |-> pc,
      messages |-> messages, analysisResult |-> analysisResult,
      userMsg |-> userMsg, file |-> file,
      rows |-> Null, result |-> Null,
      reply |-> reply, served |-> Null,
      failed |-> FALSE, final |-> Null ]

AppState(msgs, processing, stored) ==
    [messages |-> msgs, isProcessing |-> processing, analysisResult |-> stored]

\* handleSubmit then handleSendMessage up to its await.  No form event
\* arrives while the file chooser, which is modal, is open.
StartSend(input) ==
    /\ Len(handlers) < MaxHandlers
    /\ ~dialogOpen
    /\ CanSubmit(input, isProcessing)
    /\ messages' = Append(messages, Message("user", Text(input)))
    /\ isProcessing' = TRUE
    /\ handlers' = Append(handlers,
                       Handler("send", "asking", Message("user", Text(input)),
                               Null, ChatRequested(apiKey)))
    /\ serviceCalls' = serviceCalls + Bump(apiKey)
    /\ UNCHANGED << apiKey, analysisResult, dialogOpen >>
    /\ UNCHANGED << engineVars, scoringVars, csvVars >>

\* The paperclip button, disabled={isProcessing}, opens the file chooser.
ClickPaperclip ==
    /\ Len(handlers) < MaxHandlers
    /\ ~isProcessing
    /\ ~dialogOpen
    /\ dialogOpen' = TRUE
    /\ UNCHANGED << apiKey, analysisResult, messages, isProcessing, handlers,
                    serviceCalls >>
    /\ UNCHANGED << engineVars, scoringVars, csvVars >>

\* The file chooser is closed without a file.
CancelDialog ==
    /\ dialogOpen
    /\ dialogOpen' = FALSE
    /\ UNCHANGED << apiKey, analysisResult, messages, isProcessing, handlers,
                    serviceCalls >>
    /\ UNCHANGED << engineVars, scoringVars, csvVars >>

\* handleFileChange then handleFileUpload up to `await file.text()`.
ChooseFile(file) ==
    /\ dialogOpen
    /\ dialogOpen' = FALSE
    /\ messages' = Append(messages,
          Message("user", Template(<<"Uploaded file: ", file.name>>)))
    /\ isProcessing' = TRUE
    /\ handlers' = Append(handlers,
          Handler("upload", "reading",
                  Message("user", Template(<<"Uploaded file: ", file.name>>)),
                  file, Null))
    /\ UNCHANGED << apiKey, analysisResult, serviceCalls >>
    /\ UNCHANGED << engineVars, scoringVars, csvVars >>

\* The end of a handler that appends a model message: setMessages, then
\* setIsProcessing(false).
Finish(h, modelMsg, failed) ==
    /\ messages' = Append(messages, modelMsg)
    /\ isProcessing' = FALSE
    /\ handlers' = [handlers EXCEPT
          ![h].pc = "done", ![h].failed = failed,
          ![h].final = AppState(Append(messages, modelMsg), FALSE,
                                analysisResult)]

\* The end of a handler that an exception leaves.
Thrown(h) ==
    /\ handlers' = [handlers EXCEPT
          ![h].pc = "done", ![h].failed = TRUE,
          ![h].final = AppState(messages, isProcessing, analysisResult)]
    /\ UNCHANGED << messages, isProcessing >>

\* setAnalysisResult(result), then generateChatResponse up to its await.
Stored(h, recs, res) ==
    /\ analysisResult' = res
    /\ handlers' = [handlers EXCEPT
          ![h].pc = "asking", ![h].rows = Array(recs), ![h].result = res,
          ![h].reply = ChatRequested(apiKey)]
    /\ serviceCalls' = serviceCalls + Bump(apiKey)
    /\ UNCHANGED << messages, isProcessing >>

\* const rows = parseCSV(text); const result = analyzeCensusData(...)
Analysed(h, recs) ==
    Stored(h, recs,
           analyzeCensusData(AnalysisInput(recs), now, <<>>).result)

\* file.text() settles: the try block goes on, or the catch and finally
\* blocks run.
FileRead(h) ==
    /\ handlers[h].pc = "reading"
    /\ IF handlers[h].file.readable
       THEN Analysed(h, parseCSV(TextOfLines(handlers[h].file.lines)))
       ELSE /\ Finish(h, Message("model", Str(UploadErrorMessage)), TRUE)
            /\ UNCHANGED << analysisResult, serviceCalls >>
    /\ UNCHANGED << apiKey, dialogOpen >>
    /\ UNCHANGED << engineVars, scoringVars, csvVars >>

\* ai.models.generateContent settles and generateChatResponse returns.
ServiceSettles(h, outcome) ==
    /\ handlers[h].pc = "asking"
    /\ handlers[h].reply.state = "pending"
    /\ handlers' = [handlers EXCEPT
          ![h].reply = ChatSettled(outcome), ![h].served = outcome]
    /\ UNCHANGED << apiKey, analysisResult, messages, isProcessing,
                    dialogOpen, serviceCalls >>
    /\ UNCHANGED << engineVars, scoringVars, csvVars >>

\* handleSendMessage after its await; it has no try block.
ResumeSend(h) ==
    /\ handlers[h].kind = "send"
    /\ handlers[h].pc = "asking"
    /\ handlers[h].reply.state # "pending"
    /\ IF handlers[h].reply.state = "resolved"
       THEN Finish(h, Message("model", handlers[h].reply.value), FALSE)
       ELSE Thrown(h)
    /\ UNCHANGED << apiKey, analysisResult, dialogOpen, serviceCalls >>
    /\ UNCHANGED << engineVars, scoringVars, csvVars >>

\* handleFileUpload after its second await: the rest of the try block, or
\* the catch block, then the finally block.
ResumeUpload(h) ==
    /\ handlers[h].kind = "upload"
    /\ handlers[h].pc = "asking"
    /\ handlers[h].reply.state # "pending"
    /\ IF handlers[h].reply.state = "resolved"
       THEN Finish(h, Message("model", handlers[h].reply.value), FALSE)
       ELSE Finish(h, Message("model", Str(UploadErrorMessage)), TRUE)
    /\ UNCHANGED << apiKey, analysisResult, dialogOpen, serviceCalls >>
    /\ UNCHANGED << engineVars, scoringVars, csvVars >>

NextApp ==
    \/ Tick
    \/ \E input \in SampleInputs : StartSend(input)
    \/ ClickPaperclip
    \/ CancelDialog
    \/ \E file \in SampleFiles : ChooseFile(file)
    \/ \E h \in 1..Len(handlers) :
         \/ FileRead(h)
         \/ \E outcome \in ServiceOutcomes : ServiceSettles(h, outcome)
         \/ ResumeSend(h)
         \/ ResumeUpload(h)

SpecApp == InitApp /\ [][NextApp]_vars

\* Both together: the engine is called on a record sequence (the empty one
\* where counts are held), and the scoring runs on the counts held.
InitAll == Init \/ InitScoring

NextAll == Next \/ NextScoring

SpecAll == InitAll /\ [][NextAll]_vars

(* ------------------------------- claims ------------------------------- *)

\* A call has returned, on a non-empty / an empty record sequence.
Returned == result # Null
ReturnedNonEmpty == result # Null /\ Len(rows) > 0
ReturnedEmpty == result # Null /\ Len(rows) = 0

InRange(x) == 0 <= x /\ x <= 100

\* C1: for every non-empty record sequence each of the four reported
\* sub-scores and the overall score lies in [0, 100], whatever the counts
\* are: in every result returned for sample records, and for the scores of
\* all counts up to MaxTotal records, where the weighted sum that
\* Math.round turns into the overall score lies in [0, 100].
C1_ScoresInRange ==
    /\ ReturnedNonEmpty =>
        /\ InRange(result.overallScore)
        /\ InRange(result.subScores.completeness.score)
        /\ InRange(result.subScores.consistency.score)
        /\ InRange(result.subScores.eligibility.score)
        /\ InRange(result.subScores.eoiRisk.score)
    /\ scores # Null =>
        /\ InRange(scores.completeness)
        /\ InRange(scores.consistency)
        /\ InRange(scores.eligibility)
        /\ InRange(scores.eoiRisk)
        /\ 0 <= scores.weightedNum
        /\ scores.weightedNum <= 100 * 20 * tally.totalEmployees

\* A census with no completeness error, whose raw score with the density
\* bonus (115) is cut to 100, and with a low EOI score.
C1_Witness ==
    /\ ReturnedNonEmpty
    /\ result.subScores.completeness.issues[1].count = 0
    /\ result.subScores.completeness.issues[2].count = 0
    /\ result.subScores.completeness.score = 100
    /\ result.subScores.consistency.score < 100

\* Counts whose penalties exceed 100: three sub-scores are cut to 0.
C1_WitnessFloor ==
    /\ scores # Null
    /\ tally.missingSalaryCount * PENALTY_MISSING_SALARY
         + tally.missingDobCount * PENALTY_MISSING_DOB > 100
    /\ scores.completeness = 0
    /\ scores.consistency = 0
    /\ scores.eoiRisk = 0

\* C2: on an empty record sequence the engine returns the fixed degenerate
\* result: overall 0, band High, no employees, four sub-scores of 0 without
\* issues, no anomalies, drivers or actions, EOI volume 0 and the summary
\* "No data found in file.".
C2_EmptyInputResult ==
    ReturnedEmpty =>
        /\ result.overallScore = 0
        /\ result.riskLevel = "High"
        /\ result.totalEmployees = 0
        /\ \A k \in {"completeness", "consistency", "eligibility", "eoiRisk"} :
             /\ result.subScores[k].score = 0
             /\ result.subScores[k].issues = <<>>
        /\ result.anomalies = <<>>
        /\ result.topRiskDrivers = <<>>
        /\ result.recommendedActions = <<>>
        /\ result.predictedImpact.eoiVolume = 0
        /\ result.executiveSummary = <<"No data found in file.">>

C2_Witness == ReturnedEmpty /\ calls > 0

FallbackAction == Action("General", "Proceed to enrollment")

\* The duplicate count a result reports: that of its "Duplicate IDs"
\* anomaly, 0 when it has none.
ReportedDuplicates(r) ==
    IF \E i \in 1..Len(r.anomalies) : r.anomalies[i].type = "Duplicate IDs"
    THEN r.anomalies[CHOOSE i \in 1..Len(r.anomalies) :
                        r.anomalies[i].type = "Duplicate IDs"].count
    ELSE 0

\* No specific action applies: the four counts that call for one are 0.
NoSpecificAction(r) ==
    /\ r.subScores.completeness.issues[1].count = 0
    /\ r.subScores.eoiRisk.issues[1].count = 0
    /\ ReportedDuplicates(r) = 0
    /\ r.subScores.consistency.issues[1].count = 0

\* C3 as stated: in every result, for any input, the recommended-action
\* list is not empty.
C3_ActionsNeverEmpty ==
    Returned => Len(result.recommendedActions) > 0

\* C3 amended: for a non-empty input the recommended-action list is not
\* empty, and is the single fallback action when no specific action
\* applies; for an empty input it is empty.
C3_ActionsNonEmptyInput ==
    /\ ReturnedNonEmpty =>
         /\ Len(result.recommendedActions) > 0
         /\ NoSpecificAction(result) =>
              result.recommendedActions = <<FallbackAction>>
    /\ ReturnedEmpty => result.recommendedActions = <<>>

C3_Witness ==
    /\ ReturnedNonEmpty
    /\ NoSpecificAction(result)
    /\ result.recommendedActions = <<FallbackAction>>
    /\ result.subScores.eligibility.issues[1].count > 0
    /\ result.subScores.completeness.issues[2].count > 0

PresentIds ==
    {rows[i].employeeId.s : i \in {j \in 1..Len(rows) : Truthy(rows[j].employeeId)}}

Occurrences(id) ==
    Cardinality({i \in 1..Len(rows) : rows[i].employeeId = Str(id)})

\* The sum over the identifiers in S of their occurrences less one.
RECURSIVE SumExcessOccurrences(_)
SumExcessOccurrences(S) ==
    IF S = {} THEN 0
    ELSE LET id == CHOOSE y \in S : TRUE
         IN  (Occurrences(id) - 1) + SumExcessOccurrences(S \ {id})

\* C6: the duplicate count is the sum, over the distinct non-empty
\* identifiers, of the number of records carrying the identifier less one;
\* records with an empty or absent identifier never contribute.
C6_DuplicateCount ==
    ReturnedNonEmpty =>
        ReportedDuplicates(result) = SumExcessOccurrences(PresentIds)

\* One identifier on three records (counted 2), beside no other.
C6_WitnessTriple ==
    /\ ReturnedNonEmpty
    /\ \E id \in PresentIds : Occurrences(id) = 3
    /\ ReportedDuplicates(result) = 2

\* The EOI score before Math.round, times totalEmployees, from the counts
\* the result reports.
ReportedEoiNum(r) ==
    LET total == r.totalEmployees
        raw == 100 * total - 80 * r.subScores.eoiRisk.issues[1].count
               - 3 * r.subScores.completeness.issues[1].count * total
    IN  IF raw < 0 THEN 0 ELSE IF raw > 100 * total THEN 100 * total ELSE raw

\* C7 as stated: the overall score is the weighted sum of the four
\* sub-scores of the same result, rounded to the nearest integer.
C7_OverallFromReported ==
    ReturnedNonEmpty =>
        LET w == 6 * result.subScores.completeness.score
                 + 5 * result.subScores.consistency.score
                 + 5 * result.subScores.eligibility.score
                 + 4 * result.subScores.eoiRisk.score
        IN  Abs(20 * result.overallScore - w) * 2 <= 20

\* C7 amended: the overall score is the weighted sum 0.30 Completeness +
\* 0.25 Consistency + 0.25 Eligibility + 0.20 EOI Risk rounded to a nearest
\* integer, where EOI Risk is the clamped EOI score before it is rounded
\* for the result.
C7_OverallFromUnrounded ==
    ReturnedNonEmpty =>
        LET total == result.totalEmployees
            w == 6 * result.subScores.completeness.score * total
                 + 5 * result.subScores.consistency.score * total
                 + 5 * result.subScores.eligibility.score * total
                 + 4 * ReportedEoiNum(result)
        IN  Abs(20 * total * result.overallScore - w) * 2 <= 20 * total

\* A result whose EOI score has a fraction that Math.round removes.
C7_Witness ==
    /\ ReturnedNonEmpty
    /\ ReportedEoiNum(result)
         # result.subScores.eoiRisk.score * result.totalEmployees
    /\ result.overallScore < 100

\* C5: with the record total and every other count held fixed, a larger
\* missing-salary count never gives a larger Completeness sub-score nor a
\* larger EOI Risk sub-score (as computed, and as reported after Math.round).
C5_MissingSalaryMonotone ==
    before # Null =>
        /\ scores.completeness <= before.completeness
        /\ scores.eoiNum <= before.eoiNum
        /\ scores.eoiRisk <= before.eoiRisk

\* One more missing salary takes the density bonus away: the Completeness
\* sub-score falls by more than the penalty, and the EOI Risk sub-score
\* falls too.
C5_Witness ==
    /\ before # Null
    /\ before.completeness - scores.completeness > PENALTY_MISSING_SALARY
    /\ scores.eoiRisk < before.eoiRisk
    /\ tally.employeesExceedingGI > 0

\* C8: for every non-empty input the risk band is decided by the overall
\* score alone: Low exactly when it is at least 85, Moderate exactly when
\* it is at least 70 and below 85, High exactly when it is below 70.
C8_RiskBand ==
    ReturnedNonEmpty =>
        /\ result.riskLevel = "Low" <=> result.overallScore >= 85
        /\ result.riskLevel = "Moderate" <=>
             (70 <= result.overallScore /\ result.overallScore < 85)
        /\ result.riskLevel = "High" <=> result.overallScore < 70

\* A result exactly on the lower edge of the Low band.
C8_Witness ==
    /\ ReturnedNonEmpty
    /\ result.overallScore = 85
    /\ result.riskLevel = "Low"

\* The predicted-impact block mirrors the risk band.
ImpactMirrorsBand(r) ==
    /\ r.riskLevel = "High" =>
         /\ r.predictedImpact.postIssueCorrectionRisk = "High"
         /\ r.predictedImpact.clarifications = <<"6+", " cycles">>
    /\ r.riskLevel = "Moderate" =>
         /\ r.predictedImpact.postIssueCorrectionRisk = "Medium"
         /\ r.predictedImpact.clarifications = <<"4-6", " cycles">>
    /\ r.riskLevel = "Low" =>
         /\ r.predictedImpact.postIssueCorrectionRisk = "Low"
         /\ r.predictedImpact.clarifications = <<"1-2", " cycles">>

\* C9 as stated: in every result the post-issuance correction risk label
\* and the clarification-cycle estimate mirror the risk band.
C9_ImpactMirrorsBandAlways ==
    Returned => ImpactMirrorsBand(result)

\* C9 amended: in every result for a non-empty input the post-issuance
\* correction risk label and the clarification-cycle estimate mirror the
\* risk band; the result for an empty input has the band High with the
\* label "None" and the estimate "0".
C9_ImpactMirrorsBandNonEmpty ==
    /\ ReturnedNonEmpty => ImpactMirrorsBand(result)
    /\ ReturnedEmpty =>
         /\ result.riskLevel = "High"
         /\ result.predictedImpact.postIssueCorrectionRisk = "None"
         /\ result.predictedImpact.clarifications = <<"0">>

C9_Witness ==
    /\ ReturnedNonEmpty
    /\ result.riskLevel = "High"
    /\ result.predictedImpact.postIssueCorrectionRisk = "High"

\* The five driver sentences in their priority order.
DriverTexts ==
    << " employees exceed GI ($150k) -> EOI required",
       " missing salary records",
       " employees in waiting period",
       " coverage elections exceeding plan max (5x)",
       " duplicate IDs" >>

\* The count behind each driver, from what the result reports.
DriverCount(r, k) ==
    CASE k = 1 -> r.subScores.eoiRisk.issues[1].count
      [] k = 2 -> r.subScores.completeness.issues[1].count
      [] k = 3 -> r.subScores.eligibility.issues[1].count
      [] k = 4 -> r.subScores.consistency.issues[1].count
      [] k = 5 -> ReportedDuplicates(r)

\* The position of driver k in the list, 0 when it is not there.
DriverAt(r, k) ==
    LET at == {i \in 1..Len(r.topRiskDrivers) :
                 r.topRiskDrivers[i][2] = DriverTexts[k]}
    IN  IF at = {} THEN 0 ELSE CHOOSE i \in at : TRUE

\* C10: the risk-driver list holds one entry for each of the five counts
\* that is above 0, with that count, and no other entry, in the fixed
\* priority order, and never more than 5 entries (none for an empty input,
\* where every count is 0).
C10_RiskDrivers ==
    /\ ReturnedEmpty => result.topRiskDrivers = <<>>
    /\ ReturnedNonEmpty =>
        LET d == result.topRiskDrivers
        IN  /\ Len(d) <= 5
            /\ Len(d) = Cardinality({k \in 1..5 : DriverCount(result, k) > 0})
            /\ \A k \in 1..5 :
                 DriverCount(result, k) > 0 =>
                   /\ DriverAt(result, k) > 0
                   /\ d[DriverAt(result, k)][1] = DriverCount(result, k)
            /\ \A k \in 1..5 :
                 DriverCount(result, k) = 0 => DriverAt(result, k) = 0
            /\ \A j \in 1..5, k \in 1..5 :
                 (j < k /\ DriverAt(result, j) > 0 /\ DriverAt(result, k) > 0)
                   => DriverAt(result, j) < DriverAt(result, k)

\* All five conditions at once: five entries.
C10_WitnessAllFive ==
    /\ ReturnedNonEmpty
    /\ \A k \in 1..5 : DriverCount(result, k) > 0
    /\ Len(result.topRiskDrivers) = 5

(* ----------------------------- C11 ------------------------------------ *)

\* The four specific actions in their fixed order, and for each the count
\* of the result that calls for it.
SpecificActions ==
    << Action("Missing Salary", "Employer clarification upfront"),
       Action("EOI Volume", "Pre-emptive EOI communication"),
       Action("Duplicates", "Deduplicate before enrollment"),
       Action("Plan Limits", "Cap voluntary elections at 5x") >>

ActionCount(r, k) ==
    CASE k = 1 -> r.subScores.completeness.issues[1].count
      [] k = 2 -> r.subScores.eoiRisk.issues[1].count
      [] k = 3 -> ReportedDuplicates(r)
      [] k = 4 -> r.subScores.consistency.issues[1].count

\* The specific actions a result calls for, as indexes in increasing order.
ActionsCalledFor(r) == SelectSeq(<<1, 2, 3, 4>>, LAMBDA k : ActionCount(r, k) > 0)

\* C11: for a non-empty input the recommended actions are the specific
\* actions whose count is > 0, in the order missing-salary, GI-exceeding,
\* duplicates, voluntary-over-max; the fallback action appears exactly when
\* all four counts are 0, whatever the waiting-period and missing-DOB
\* counts, and is then the only entry.
C11_ActionOrder ==
    ReturnedNonEmpty =>
      LET called == ActionsCalledFor(result)
          acts == result.recommendedActions
      IN  /\ (\E i \in 1..Len(acts) : acts[i] = FallbackAction)
                <=> NoSpecificAction(result)
          /\ NoSpecificAction(result) => acts = <<FallbackAction>>
          /\ ~NoSpecificAction(result) =>
                /\ Len(acts) = Len(called)
                /\ \A i \in 1..Len(acts) : acts[i] = SpecificActions[called[i]]

\* All four specific actions at once, in order.
C11_WitnessAllFour ==
    /\ ReturnedNonEmpty
    /\ result.recommendedActions = SpecificActions

\* The fallback alone while records are in the waiting period.
C11_WitnessFallback ==
    /\ ReturnedNonEmpty
    /\ result.recommendedActions = <<FallbackAction>>
    /\ result.subScores.eligibility.issues[1].count > 1

(* ----------------------------- C12 ------------------------------------ *)

Parsed == parsed # Null

\* The lines of the file that are neither empty nor white space only, in
\* the order of the file.
KeptLines == SelectSeq(csvLines, LAMBDA l : l \notin BlankLines)

\* The key the header field h is stored under.
FieldKey(h) == MapKey(NormalizeKey(Trim(h)))

\* rec is the record of the data line `fields` under the header line
\* `header`: it has the headers' keys and no other, the j-th header's key
\* holding the j-th field trimmed, or undefined when the line has no j-th
\* field (of headers with the same key the last one counts).
RecordOfLine(rec, header, fields) ==
    /\ DOMAIN rec = {FieldKey(header[j]) : j \in 1..Len(header)}
    /\ \A j \in 1..Len(header) :
         (\A k \in (j + 1)..Len(header) : FieldKey(header[k]) # FieldKey(header[j]))
           => rec[FieldKey(header[j])]
                = IF j <= Len(fields) THEN Text(Trim(fields[j])) ELSE Undefined

RecordsOfLines(recs, kept) ==
    /\ Len(kept) = 0 => recs = <<>>
    /\ Len(kept) > 0 =>
         /\ Len(recs) = Len(kept) - 1
         /\ \A i \in 1..Len(recs) : RecordOfLine(recs[i], kept[1], kept[i + 1])

\* C12: parseCSV drops the empty and white-space-only lines, returns the
\* empty sequence when no line remains, and otherwise one record for each
\* remaining line after the header, in the order of the file, whatever the
\* line's values and number of fields: fields beyond the line's end are
\* undefined and fields beyond the headers are dropped.
C12_OneRecordPerLine == Parsed => RecordsOfLines(parsed.items, KeptLines)

\* Two records in the order of the file, the first from a line with more
\* fields than headers, the second from a line with fewer.
C12_Witness ==
    /\ Parsed
    /\ Len(csvLines) = 3
    /\ csvLines[1] = HeaderIds
    /\ csvLines[2] = DataLong
    /\ csvLines[3] = DataShort
    /\ Len(parsed.items) = 2
    /\ parsed.items[1][Key_employeeId] = Text(<<"E", "1">>)
    /\ parsed.items[2][Key_employeeId] = Text(<<"E", "2">>)
    /\ parsed.items[2][Key_dob] = Undefined

\* Blank lines before and after the header, and one record.
C12_WitnessBlankDropped ==
    /\ Parsed
    /\ Len(csvLines) = 3
    /\ csvLines[1] \in BlankLines
    /\ csvLines[3] \in BlankLines
    /\ Len(parsed.items) = 0
    /\ Len(KeptLines) = 1

(* ----------------------------- C13 ------------------------------------ *)

\* The ordered rules: whether rule k matches a normalized key, and the
\* field rule k maps to.
RuleMatches(k, key) ==
    CASE k = 1 -> Includes(key, <<"i", "d">>)
      [] k = 2 -> Includes(key, <<"a", "n", "n", "u", "a", "l", "s", "a", "l", "a", "r", "y">>)
                    \/ key = <<"s", "a", "l", "a", "r", "y">>
      [] k = 3 -> Includes(key, <<"d", "o", "b">>)
                    \/ Includes(key, <<"b", "i", "r", "t", "h">>)
      [] k = 4 -> Includes(key, <<"s", "t", "a", "t", "u", "s">>)
      [] k = 5 -> Includes(key, <<"h", "i", "r", "e", "d", "a", "t", "e">>)
      [] k = 6 -> Includes(key, <<"b", "a", "s", "i", "c">>)
      [] k = 7 -> Includes(key, <<"v", "o", "l", "u", "n", "t", "a", "r", "y">>)
                    \/ Includes(key, <<"s", "u", "p", "p">>)
      [] k = 8 -> Includes(key, <<"d", "e", "p", "e", "n", "d", "e", "n", "t">>)

RuleFields ==
    << Key_employeeId, Key_annualSalary, Key_dob, Key_employmentStatus,
       Key_hireDate, Key_basicLifeCoverage, Key_voluntaryLifeMultiple,
       Key_dependentElections >>

MatchingRules(key) == {k \in 1..8 : RuleMatches(k, key)}

\* The field of the earliest matching rule; the key itself when no rule
\* matches.
RuleKey(key) ==
    IF MatchingRules(key) = {} THEN key
    ELSE RuleFields[CHOOSE k \in MatchingRules(key) :
                       \A m \in MatchingRules(key) : k <= m]

KeysByRules(keys, header) ==
    /\ Len(keys) = Len(header)
    /\ \A j \in 1..Len(header) :
         keys[j] = RuleKey(NormalizeKey(Trim(header[j])))

\* C13: the key computed for each header is the field of the first rule,
\* in the order id, annualsalary / salary, dob / birth, status, hiredate,
\* basic, voluntary / supp, dependent, that its normalized key matches, and
\* the normalized key itself when it matches none.
C13_FirstRuleWins ==
    (Parsed /\ Len(KeptLines) >= 2) => KeysByRules(headerKeys.items, KeptLines[1])

\* Headers matching two rules, and one matching none.
C13_Witness ==
    /\ Parsed
    /\ Len(KeptLines) >= 2
    /\ KeptLines[1] = HeaderMixed
    /\ Cardinality(MatchingRules(NormalizeKey(HeaderMixed[1]))) = 2
    /\ MatchingRules(NormalizeKey(HeaderMixed[2])) = {}
    /\ headerKeys.items
         = << Key_employeeId, <<"b", "a", "s", "e", "s", "a", "l", "a", "r", "y">>,
              Key_dob, Key_employmentStatus >>

(* ----------------------------- C14 ------------------------------------ *)

\* The Completeness sub-score as the formula gives it.
CompletenessByFormula(total, missingSalary, missingDob) ==
    LET bonus == IF (missingSalary + missingDob) * 100 <= 5 * total THEN 15
                 ELSE IF (missingSalary + missingDob) * 100 <= 10 * total
                      THEN 10
                 ELSE 0
    IN  Min(100, Max(0, 100 - 5 * missingSalary - 4 * missingDob + bonus))

\* C14: for a non-empty input the Completeness sub-score is
\* 100 - 5 * missingSalary - 4 * missingDob plus the density bonus (15 when
\* (missingSalary + missingDob) / total is at most 5%, 10 when at most 10%,
\* else 0), cut to [0, 100]: in every result returned for sample records
\* and for the scores of all counts up to MaxTotal records.
C14_CompletenessFormula ==
    /\ ReturnedNonEmpty =>
         result.subScores.completeness.score
           = CompletenessByFormula(result.totalEmployees,
                 result.subScores.completeness.issues[1].count,
                 result.subScores.completeness.issues[2].count)
    /\ scores # Null =>
         scores.completeness
           = CompletenessByFormula(tally.totalEmployees,
                 tally.missingSalaryCount, tally.missingDobCount)

\* The example: 10 records, 2 without salary, 1 without a valid date of
\* birth, give 86.
C14_Witness ==
    /\ scores # Null
    /\ tally.totalEmployees = 10
    /\ tally.missingSalaryCount = 2
    /\ tally.missingDobCount = 1
    /\ scores.completeness = 86

\* The bonus of 15 with an error: 1 record in 20.
C14_WitnessBonus15 ==
    /\ scores # Null
    /\ tally.totalEmployees = 20
    /\ tally.missingSalaryCount + tally.missingDobCount = 1
    /\ scores.completeness = 100

\* The bonus of 10: 1 record in 10 without a date of birth gives 106, cut
\* to 100.
C14_WitnessBonus10 ==
    /\ scores # Null
    /\ tally.totalEmployees = 12
    /\ tally.missingSalaryCount = 1
    /\ tally.missingDobCount = 0
    /\ scores.completeness = 100

(* ----------------------------- C15 ------------------------------------ *)

\* The Consistency sub-score as the formula gives it.
ConsistencyByFormula(total, volOverMax, zeroSalaryCoverage) ==
    LET penalty == IF volOverMax + zeroSalaryCoverage > 0
                   THEN IF (volOverMax + zeroSalaryCoverage) * 100 <= 5 * total
                        THEN 9 ELSE 15
                   ELSE 0
    IN  Min(100, Max(0, 100 - 6 * volOverMax - 5 * zeroSalaryCoverage
                          - penalty))

\* C15: for a non-empty input the Consistency sub-score is
\* 100 - 6 * volOverMax - 5 * zeroSalaryCoverage minus a density penalty
\* applied only when volOverMax + zeroSalaryCoverage > 0 (9 when that count
\* over the total is at most 5%, else 15), cut to [0, 100]; with no
\* consistency error it is 100.
C15_ConsistencyFormula ==
    /\ ReturnedNonEmpty =>
         /\ result.subScores.consistency.score
              = ConsistencyByFormula(result.totalEmployees,
                    result.subScores.consistency.issues[1].count,
                    result.subScores.consistency.issues[2].count)
         /\ (/\ result.subScores.consistency.issues[1].count = 0
             /\ result.subScores.consistency.issues[2].count = 0)
              => result.subScores.consistency.score = 100
    /\ scores # Null =>
         /\ scores.consistency
              = ConsistencyByFormula(tally.totalEmployees,
                    tally.volMultiOverMaxCount, tally.zeroSalaryCount)
         /\ (tally.volMultiOverMaxCount = 0 /\ tally.zeroSalaryCount = 0)
              => scores.consistency = 100

\* The penalty of 9: 1 record in 20 over the plan maximum gives 85.
C15_Witness ==
    /\ scores # Null
    /\ tally.totalEmployees = 20
    /\ tally.volMultiOverMaxCount = 1
    /\ tally.zeroSalaryCount = 0
    /\ scores.consistency = 85

\* The penalty of 15 in a result: 1 record in 3 over the plan maximum
\* gives 79.
C15_WitnessPenalty15 ==
    /\ ReturnedNonEmpty
    /\ result.totalEmployees = 3
    /\ result.subScores.consistency.issues[1].count = 1
    /\ result.subScores.consistency.issues[2].count = 0
    /\ result.subScores.consistency.score = 79

(* ----------------------------- C16 ------------------------------------ *)

\* The records whose basic coverage + salary * voluntary multiple is above
\* 150,000 (amounts in tenths, so the product is in hundredths).
RowsExceeding ==
    { i \in 1..Len(rows) :
        parseMoney(rows[i].basicLifeCoverage) * 10
          + parseMoney(rows[i].annualSalary)
              * parseVolMult(rows[i].voluntaryLifeMultiple)
          > 150000 * 100 }

\* Every record has voluntary multiple 0 and basic coverage 0.
NoCoverageElected ==
    \A i \in 1..Len(rows) :
        /\ parseVolMult(rows[i].voluntaryLifeMultiple) = 0
        /\ parseMoney(rows[i].basicLifeCoverage) = 0

\* 100 - 0.8 * (exceedsGI / total * 100) - 3 * missingSalary cut to
\* [0, 100], times total.
EoiByFormula(total, exceedsGI, missingSalary) ==
    Min(100 * total,
        Max(0, 100 * total - 80 * exceedsGI - 3 * missingSalary * total))

\* score is a nearest integer of num / total.
NearestInteger(score, num, total) == 2 * Abs(score * total - num) <= total

\* C16 as stated: the EOI Risk sub-score in the result equals
\* 100 - 0.8 * (exceedsGI / total * 100) - 3 * missingSalary cut to
\* [0, 100].
C16_EoiScoreExact ==
    ReturnedNonEmpty =>
        result.subScores.eoiRisk.score * result.totalEmployees
          = EoiByFormula(result.totalEmployees,
                         result.subScores.eoiRisk.issues[1].count,
                         result.subScores.completeness.issues[1].count)

\* C16 amended: the EOI Risk sub-score in the result is that value rounded
\* to the nearest integer; exceedsGI counts the records whose basic
\* coverage + salary * voluntary multiple is above 150,000; when every
\* record has multiple 0 and basic coverage 0, exceedsGI is 0 whatever the
\* salaries and the sub-score is 100 - 3 * missingSalary cut to [0, 100].
C16_EoiScoreRounded ==
    /\ ReturnedNonEmpty =>
         /\ result.subScores.eoiRisk.issues[1].count
              = Cardinality(RowsExceeding)
         /\ NearestInteger(result.subScores.eoiRisk.score,
                EoiByFormula(result.totalEmployees,
                             result.subScores.eoiRisk.issues[1].count,
                             result.subScores.completeness.issues[1].count),
                result.totalEmployees)
         /\ NoCoverageElected =>
              /\ result.subScores.eoiRisk.issues[1].count = 0
              /\ result.subScores.eoiRisk.score
                   = Min(100, Max(0, 100 - 3 * result.subScores.completeness.issues[1].count))
    /\ scores # Null =>
         NearestInteger(scores.eoiRisk,
             EoiByFormula(tally.totalEmployees, tally.employeesExceedingGI,
                          tally.missingSalaryCount),
             tally.totalEmployees)

\* No coverage elected, a salary of 200,000 and a missing salary: no record
\* exceeds the limit and the sub-score is 97.
C16_Witness ==
    /\ ReturnedNonEmpty
    /\ NoCoverageElected
    /\ \E i \in 1..Len(rows) : parseMoney(rows[i].annualSalary) > 150000 * 10
    /\ result.subScores.completeness.issues[1].count = 1
    /\ result.subScores.eoiRisk.score = 97

\* 1 record in 3 exceeds the limit: 73.33 is reported as 73.
C16_WitnessRounded ==
    /\ ReturnedNonEmpty
    /\ result.totalEmployees = 3
    /\ Cardinality(RowsExceeding) = 1
    /\ result.subScores.completeness.issues[1].count = 0
    /\ result.subScores.eoiRisk.score = 73

(* ----------------------------- C17 ------------------------------------ *)

\* The promise of a call of generateChatResponse is never rejected, and
\* is resolved with a string: the missing-key message when no API key is
\* set, the error message when the service call failed.
ChatReplyOk(hd) ==
    hd.reply # Null =>
        /\ hd.reply.state \in {"pending", "resolved"}
        /\ hd.reply.state = "resolved" => hd.reply.value.type = "string"
        /\ ~apiKey => hd.reply = Resolved(Str(MissingKeyMessage))
        /\ (hd.served # Null /\ hd.served.kind = "error")
             => hd.reply = Resolved(Str(ServiceErrorMessage))

\* C17: generateChatResponse resolves to a string and never rejects;
\* without an API key it returns the missing-key message and the service
\* is not called; when the service call fails it returns the error
\* message.
C17_ChatNeverRejects ==
    /\ \A h \in 1..Len(handlers) : ChatReplyOk(handlers[h])
    /\ ~apiKey => serviceCalls = 0

\* A service failure answered with the error message, shown to the user.
C17_Witness ==
    \E h \in 1..Len(handlers) :
        /\ handlers[h].pc = "done"
        /\ handlers[h].served # Null
        /\ handlers[h].served.kind = "error"
        /\ handlers[h].reply = Resolved(Str(ServiceErrorMessage))
        /\ messages[Len(handlers[h].messages) + 2]
             = Message("model", Str(ServiceErrorMessage))

\* No API key: the missing-key message, and no service call.
C17_WitnessNoKey ==
    /\ ~apiKey
    /\ serviceCalls = 0
    /\ \E h \in 1..Len(handlers) :
         /\ handlers[h].pc = "done"
         /\ handlers[h].reply = Resolved(Str(MissingKeyMessage))

(* ----------------------------- C18 ------------------------------------ *)

\* The upload has parsed the file and stored the result.
Uploaded(hd) == hd.kind = "upload" /\ hd.rows # Null

\* C18: in handleFileUpload the engine is given the records parseCSV
\* returned, so the stored result's totalEmployees is the number of data
\* rows parsed, and a file with no data row gives the result for empty
\* input: score 0, band High.
C18_UploadAnalysesParsedRows ==
    \A h \in 1..Len(handlers) :
        Uploaded(handlers[h]) =>
            /\ handlers[h].result.totalEmployees = Len(handlers[h].rows.items)
            /\ Len(handlers[h].rows.items) = 0 =>
                 /\ handlers[h].result.overallScore = 0
                 /\ handlers[h].result.riskLevel = "High"

(* ----------------------------- C19 ------------------------------------ *)

IsPrefix(a, b) == Len(a) <= Len(b) /\ SubSeq(b, 1, Len(a)) = a

\* The model message a handler ends with.
ModelMessageOf(hd) ==
    Message("model",
            IF hd.failed THEN Str(UploadErrorMessage) ELSE hd.reply.value)

\* A handler that has ended left isProcessing false and the message list
\* it started with, then its user message, then its model message; a
\* failed one left the stored result as it was.
EndedWell(hd) ==
    /\ hd.final.isProcessing = FALSE
    /\ hd.final.messages = hd.messages \o <<hd.userMsg, ModelMessageOf(hd)>>
    /\ hd.userMsg.role = "user"
    /\ hd.failed => hd.final.analysisResult = hd.analysisResult

\* C19: while a send or upload handler awaits, isProcessing is true; when
\* it has ended, failed or not, isProcessing is false, the message list
\* has grown by its user message followed by its model message, and a
\* failed upload has left the stored result unchanged; messages once in
\* the list stay.
C19_HandlersKeepAppState ==
    /\ messages[1] = INITIAL_MESSAGE
    /\ \A h \in 1..Len(handlers) :
         /\ handlers[h].pc # "done" =>
              /\ isProcessing
              /\ IsPrefix(Append(handlers[h].messages, handlers[h].userMsg),
                          messages)
         /\ handlers[h].pc = "done" =>
              /\ EndedWell(handlers[h])
              /\ IsPrefix(handlers[h].final.messages, messages)

\* An upload that stored a result, then an upload that failed: the result
\* is kept and the list holds five messages.
C19_Witness ==
    /\ Len(handlers) = 2
    /\ handlers[1].pc = "done"
    /\ handlers[2].pc = "done"
    /\ handlers[1].kind = "upload"
    /\ ~handlers[1].failed
    /\ handlers[2].failed
    /\ analysisResult # Null
    /\ analysisResult = handlers[1].result
    /\ ~isProcessing
    /\ Len(messages) = 5

\* A send is awaiting its reply.
C19_WitnessAwaiting ==
    /\ Len(handlers) = 2
    /\ handlers[2].kind = "send"
    /\ handlers[2].pc = "asking"
    /\ handlers[2].reply.state = "pending"
    /\ isProcessing

==============================================================================
